---- MODULE Spec2Model ----
(***************************************************************************)
(* Session reconciliation of the Supabase Nuxt plugins                     *)
(* (src/src/runtime/plugins/supabase.server.ts: the server-side plugin,    *)
(* lines 10-85, and the client-side plugin, lines 94-218) and the retrying *)
(* transport fetchWithRetry they hand to the provider SDK.                 *)
(***************************************************************************)
EXTENDS Integers, Sequences, FiniteSets, TLC

\* ------------------------------------------------------------------ bounds
MaxEvents == 3
MaxClock == 1

\* ------------------------------------------------------------- data model
\* JavaScript null / undefined of a cell, a payload or a result.
Null == [null |-> TRUE]

UserIds == {"u1", "u2"}
Emails == {"a@x", "b@x"}
\* User: identity record keyed by id; two records with one id may differ.
Users == [id : UserIds, email : Emails]

Tokens == {"t1", "t2"}
Times == 0 .. MaxClock
DefaultExpiresIn == 3600
ProviderExpiresAt == 9000

\* A provider session without its embedded user.
BareSession(tok) ==
    [access_token |-> tok, refresh_token |-> "r1",
     expires_in |-> DefaultExpiresIn, expires_at |-> ProviderExpiresAt,
     token_type |-> "bearer"]

\* Session as the SDK types it: token material plus the embedded user.
WithUser(s, u) ==
    [access_token |-> s.access_token, refresh_token |-> s.refresh_token,
     expires_in |-> s.expires_in, expires_at |-> s.expires_at,
     token_type |-> s.token_type, user |-> u]

TypedSessions == {WithUser(BareSession(tok), u) : tok \in Tokens, u \in Users}
\* Sessions whose user field is missing (sessionUser?.id guards for it).
UserlessSessions == {BareSession(tok) : tok \in Tokens}

HasUser(s) == s # Null /\ "user" \in DOMAIN s

\* const { user: _, ...sessionWithoutUser } = sessionData.session
StripUser(s) ==
    [access_token |-> s.access_token, refresh_token |-> s.refresh_token,
     expires_in |-> s.expires_in, expires_at |-> s.expires_at,
     token_type |-> s.token_type]

\* The fallback session object literal; now = Math.floor(Date.now() / 1000).
Placeholder(now) ==
    [access_token |-> "", refresh_token |-> "",
     expires_in |-> DefaultExpiresIn, expires_at |-> now + DefaultExpiresIn,
     token_type |-> "bearer"]

\* JSON.stringify of a user object: its keys in order, values as text.
StringifyUser(u) == <<"{", "id", u.id, "email", u.email, "}">>

\* JSON.stringify of a Session | null: "null" for null, otherwise the
\* object's own keys in order, numbers printed, a missing key left out.
Stringify(s) ==
    IF s = Null THEN <<"null">>
    ELSE <<"{", "access_token", s.access_token,
           "refresh_token", s.refresh_token,
           "expires_in", ToString(s.expires_in),
           "expires_at", ToString(s.expires_at),
           "token_type", s.token_type>>
         \o (IF HasUser(s) THEN <<"user">> \o StringifyUser(s.user) ELSE <<>>)
         \o <<"}">>

\* ------------------------------------------------------- provider results
\* A provider call is unissued, pending, or settled: "ok" (data, no error),
\* "error" (an error payload, no data) or "raised" (the promise rejected).
Unissued == [st |-> "unissued", val |-> Null]
Pending == [st |-> "pending", val |-> Null]
Ok(v) == [st |-> "ok", val |-> v]
ErrorResult == [st |-> "error", val |-> Null]
Raised == [st |-> "raised", val |-> Null]

Settled(r) == r.st \in {"ok", "error", "raised"}

\* client.auth.getUser(): { data: { user }, error } or a rejection.
GetUserOutcomes == {Ok(u) : u \in Users \cup {Null}} \cup {ErrorResult, Raised}
\* client.auth.getSession(): { data: { session }, error } or a rejection.
GetSessionOutcomes ==
    {Ok(s) : s \in TypedSessions \cup UserlessSessions \cup {Null}}
        \cup {ErrorResult, Raised}
\* serverSupabaseUser(event) / serverSupabaseSession(event): a value or a
\* rejection.  The services (../server/services) return the user and the
\* session without its user, each from its own provider call.
ServerUserOutcomes == {Ok(u) : u \in Users \cup {Null}} \cup {Raised}
ServerSessionOutcomes ==
    {Ok(s) : s \in UserlessSessions \cup {Null}} \cup {Raised}

VARIABLES
    side,            \* which plugin runs: "server" or "client"
    useSsrCookies,   \* runtime config flag
    pc,              \* position of setup
    userRes,         \* the user call and its result
    sessionRes,      \* the session call and its result
    currentSession,  \* useSupabaseSession().value
    currentUser,     \* useSupabaseUser().value
    subscribed,      \* onAuthStateChange callback registered
    log,             \* warn / error events reported through logger
    setupRejected,   \* setup's promise rejected into the host
    nowAtInit,       \* Math.floor(Date.now() / 1000) read by the fallback
    eventCount,      \* auth events delivered so far
    lastEvent,       \* session carried by the last delivered event
    lastWrote,       \* the last delivered event wrote the pair
    initWrites,      \* writes of each cell made by the initialization path
    torn,            \* the latest paired write showed a half-updated pair
    subscriptions,   \* onAuthStateChange registrations made by setup
    clientOptions,   \* runtime config: options handed on to the SDK client
    clientFetch,     \* global.fetch of the constructed client
    calls            \* per-call retry attempt state of the transport

reconcilerVars == <<side, useSsrCookies, pc, userRes, sessionRes,
                    currentSession, currentUser, subscribed, log,
                    setupRejected, nowAtInit, eventCount, lastEvent,
                    lastWrote, initWrites, torn, subscriptions,
                    clientOptions, clientFetch>>

vars == <<reconcilerVars, calls>>

\* ---------------------------------------------------- retrying transport
\* fetchWithRetry (../utils/fetch-retry) as section 4.1 describes it.
NumCalls == 2
MaxAttempts == 4
BaseDelay == 1

CallIds == 1 .. NumCalls
RetryableOutcomes == {"network", "reset", "5xx", "timeout"}
TerminalOutcomes == {"4xx", "malformed"}
AttemptOutcomes == {"2xx"} \cup RetryableOutcomes \cup TerminalOutcomes

\* Retry attempt state: transient, one per logical request.
IdleCall ==
    [status |-> "idle", attempts |-> 0, retryable |-> 0, last |-> "none",
     delay |-> 0]

\* -------------------------------------------------------- client options
\* { ...base, ...over }: the keys of over replace those of base; spreading
\* undefined adds nothing.
Spread(base, over) ==
    IF over = Null THEN base
    ELSE [k \in DOMAIN base \cup DOMAIN over |->
            IF k \in DOMAIN over THEN over[k] ELSE base[k]]

\* Values of useRuntimeConfig().public.supabase.clientOptions: without
\* global options, with global options that set headers only, and with
\* global options that bring their own fetch.
ClientOptionsValues ==
    {[auth |-> "flow"],
     [auth |-> "flow", global |-> [headers |-> "x-app"]],
     [auth |-> "flow", global |-> [fetch |-> "customFetch"]]}

\* clientOptions.global
GlobalOf(options) ==
    IF "global" \in DOMAIN options THEN options.global ELSE Null

\* The options object given to createServerClient, createBrowserClient and
\* createClient: { ...clientOptions, global: { fetch: fetchWithRetry,
\* ...clientOptions.global } }.
BuiltOptions(options) ==
    Spread(options,
           [global |-> Spread([fetch |-> "fetchWithRetry"],
                              GlobalOf(options))])

\* The fetch function the constructed client uses.
FetchOf(options) == BuiltOptions(options).global.fetch

Init ==
    /\ side \in {"server", "client"}
    /\ useSsrCookies \in BOOLEAN
    /\ pc = "start"
    /\ userRes = Unissued
    /\ sessionRes = Unissued
    /\ currentSession = Null
    /\ currentUser = Null
    /\ subscribed = FALSE
    /\ log = {}
    /\ setupRejected = FALSE
    /\ nowAtInit = 0
    /\ eventCount = 0
    /\ lastEvent = Null
    /\ lastWrote = FALSE
    /\ initWrites = [session |-> 0, user |-> 0]
    /\ torn = FALSE
    /\ subscriptions = 0
    /\ clientOptions \in ClientOptionsValues
    /\ clientFetch = "none"
    /\ calls = [c \in CallIds |-> IdleCall]

\* ------------------------------------------------------------ paired write
\* The pair is two reactive cells assigned by two statements, the session
\* first (lines 61-62, 206-207, 213-214).  MidPair is what the cells hold
\* between the two assignments, where an effect triggered synchronously by
\* the first assignment reads them.
Pair(session, user) == [session |-> session, user |-> user]

MidPair(old, new) == Pair(new.session, old.user)

\* The state between the two assignments is neither the old pair nor the
\* new one.
TornWrite(old, new) == MidPair(old, new) \notin {old, new}

\* currentSession.value = ...; currentUser.value = ... by initialization.
InitWrite ==
    [session |-> initWrites.session + 1, user |-> initWrites.user + 1]

\* ------------------------------------------------- client initialization
\* sessionData?.session: the payload of a settled getSession() result.
SessionPayload(s) == IF s.st = "ok" THEN s.val ELSE Null

\* sessionData.session.user (undefined when the field is missing).
SessionUserOf(payload) == IF HasUser(payload) THEN payload.user ELSE Null

\* Variant: the comparison written with === instead of !==.
IdMismatchInverted(sessionUser, user) ==
    IF sessionUser = Null THEN FALSE ELSE sessionUser.id = user.id

\* sessionUser?.id !== user.id
IdMismatch(sessionUser, user) ==
    IF sessionUser = Null THEN TRUE ELSE sessionUser.id # user.id

\* !userError && userData.user
Authenticated(u) == u.st = "ok" /\ u.val # Null

\* The session chosen for an authenticated user: the getSession() payload
\* without its user, or the constructed fallback.
SessionFor(payload, now) ==
    IF payload # Null THEN StripUser(payload) ELSE Placeholder(now)

\* The body of the try block once both awaits returned: the locals
\* (session, user) it leaves, what it reported, and whether it raised.
\* Reading sessionUser.id for the warning raises a TypeError when the
\* session carries no user; user is already assigned by then.
TryBody(u, s, now) ==
    LET payload == SessionPayload(s)
        sessionUser == SessionUserOf(payload)
    IN  IF Authenticated(u)
        THEN IF payload # Null /\ IdMismatch(sessionUser, u.val)
             THEN IF sessionUser = Null
                  THEN [raised |-> TRUE, session |-> Null, user |-> u.val,
                        log |-> {}]
                  ELSE [raised |-> FALSE, session |-> SessionFor(payload, now),
                        user |-> u.val, log |-> {"warn:user id mismatch"}]
             ELSE [raised |-> FALSE, session |-> SessionFor(payload, now),
                   user |-> u.val, log |-> {}]
        ELSE [raised |-> FALSE, session |-> Null, user |-> Null,
              log |-> IF u.st = "error"
                      THEN {"error:user verification"} ELSE {}]

\* Variant: a catch block that reports but does not clear the locals.
CatchWithoutReset(locals) ==
    [raised |-> FALSE, session |-> locals.session, user |-> locals.user,
     log |-> locals.log \cup {"error:authentication initialization"}]

\* catch (error) { logger.error(...); session = null; user = null }
CatchReset(locals) ==
    [raised |-> FALSE, session |-> Null, user |-> Null,
     log |-> locals.log \cup {"error:authentication initialization"}]

\* try { ... } catch { ... } over the settled results.
Reconcile(u, s, now) ==
    LET body == IF u.st = "raised" \/ s.st = "raised"
                THEN [raised |-> TRUE, session |-> Null, user |-> Null,
                      log |-> {}]
                ELSE TryBody(u, s, now)
    IN  IF body.raised THEN CatchReset(body) ELSE body

\* Variant: the callback registered right after the client is built,
\* before initialization.
ClientStartSubscribingFirst ==
    /\ side = "client"
    /\ pc = "start"
    /\ clientFetch' = FetchOf(clientOptions)
    /\ subscribed' = TRUE
    /\ subscriptions' = subscriptions + 1
    /\ userRes' = Pending
    /\ pc' = "awaitUser"
    /\ UNCHANGED <<calls, clientOptions, side, useSsrCookies, sessionRes,
                   currentSession, currentUser, log, setupRejected,
                   nowAtInit, eventCount, lastEvent, lastWrote, initWrites,
                   torn>>

\* Lines 98-138: build the client, provide it, issue getUser().
ClientStart ==
    /\ side = "client"
    /\ pc = "start"
    /\ clientFetch' = FetchOf(clientOptions)
    /\ userRes' = Pending
    /\ pc' = "awaitUser"
    /\ UNCHANGED <<calls, clientOptions, side,
                   useSsrCookies, sessionRes, currentSession,
                   currentUser, subscribed, log, setupRejected, nowAtInit,
                   eventCount, lastEvent, lastWrote, initWrites, torn,
                   subscriptions>>

\* Variant: onAuthStateChange registered inside the try block, so a run
\* that reached the catch block never subscribes.
PublishSubscribingInsideTry(result) ==
    LET caught == "error:authentication initialization" \in result.log
    IN  /\ currentSession' = result.session
        /\ currentUser' = result.user
        /\ initWrites' = InitWrite
        /\ torn' = TornWrite(Pair(currentSession, currentUser),
                             Pair(result.session, result.user))
        /\ log' = log \cup result.log
        /\ subscribed' = ~caught
        /\ subscriptions' = IF caught THEN subscriptions
                            ELSE subscriptions + 1
        /\ pc' = "done"
        /\ UNCHANGED setupRejected

\* Variant: the cells are assigned only when a user was found.
PublishOnlyWhenSignedIn(result) ==
    /\ IF result.user # Null
       THEN /\ currentSession' = result.session
            /\ currentUser' = result.user
            /\ initWrites' = InitWrite
            /\ torn' = TornWrite(Pair(currentSession, currentUser),
                                 Pair(result.session, result.user))
       ELSE UNCHANGED <<currentSession, currentUser, initWrites, torn>>
    /\ log' = log \cup result.log
    /\ subscribed' = TRUE
    /\ subscriptions' = subscriptions + 1
    /\ pc' = "done"
    /\ UNCHANGED setupRejected

\* What follows the try/catch.  With the locals final, lines 206-216
\* publish them and subscribe; an exception the catch block did not
\* absorb would instead reject setup's promise before line 206.
PublishAndSubscribe(result) ==
    IF result.raised
    THEN /\ setupRejected' = TRUE
         /\ pc' = "done"
         /\ UNCHANGED <<currentSession, currentUser, log, subscribed,
                        initWrites, torn, subscriptions>>
    ELSE /\ currentSession' = result.session
         /\ currentUser' = result.user
         /\ initWrites' = InitWrite
         /\ torn' = TornWrite(Pair(currentSession, currentUser),
                              Pair(result.session, result.user))
         /\ log' = log \cup result.log
         /\ subscribed' = TRUE
         /\ subscriptions' = subscriptions + 1
         /\ pc' = "done"
         /\ UNCHANGED setupRejected

\* Variant: the user cell is assigned as soon as getUser() returns,
\* before getSession() is awaited.
ClientUserSettlesEager(outcome) ==
    /\ side = "client"
    /\ pc = "awaitUser"
    /\ userRes' = outcome
    /\ IF outcome.st = "raised"
       THEN /\ PublishAndSubscribe(Reconcile(outcome, sessionRes, 0))
            /\ UNCHANGED sessionRes
       ELSE /\ sessionRes' = Pending
            /\ pc' = "awaitSession"
            /\ currentUser' = outcome.val
            /\ UNCHANGED <<currentSession, subscribed, log, setupRejected,
                           initWrites, torn, subscriptions>>
    /\ UNCHANGED <<calls, clientOptions, clientFetch, side, useSsrCookies,
                   nowAtInit, eventCount, lastEvent, lastWrote>>

\* await getUser() returns or rejects.  A rejection skips the rest of the
\* try block (getSession() is never called) and runs the catch block.
ClientUserSettles(outcome) ==
    /\ side = "client"
    /\ pc = "awaitUser"
    /\ userRes' = outcome
    /\ IF outcome.st = "raised"
       THEN /\ PublishAndSubscribe(Reconcile(outcome, sessionRes, 0))
            /\ UNCHANGED sessionRes
       ELSE /\ sessionRes' = Pending
            /\ pc' = "awaitSession"
            /\ UNCHANGED <<currentSession, currentUser, subscribed, log,
                           setupRejected, initWrites, torn, subscriptions>>
    /\ UNCHANGED <<calls, clientOptions, clientFetch, side,
                   useSsrCookies, nowAtInit, eventCount,
                   lastEvent, lastWrote>>

\* await getSession() returns or rejects; lines 143-216 run to the end.
ClientSessionSettles(outcome, now) ==
    /\ side = "client"
    /\ pc = "awaitSession"
    /\ sessionRes' = outcome
    /\ nowAtInit' = now
    /\ PublishAndSubscribe(Reconcile(userRes, outcome, now))
    /\ UNCHANGED <<calls, clientOptions, clientFetch, side,
                   useSsrCookies, userRes, eventCount,
                   lastEvent, lastWrote>>

\* ------------------------------------------------------ auth event stream
EventKinds == {"SIGNED_IN", "SIGNED_OUT", "TOKEN_REFRESHED"}

\* Variant: the two objects compared by reference, which never match.
SessionChangedByReference(held, incoming) == TRUE

\* Variant: a null incoming session treated as "nothing to apply".
SessionChangedIgnoringNull(held, incoming) ==
    incoming # Null /\ Stringify(held) # Stringify(incoming)

\* JSON.stringify(currentSession.value) !== JSON.stringify(session)
SessionChanged(held, incoming) == Stringify(held) # Stringify(incoming)

\* Variant: the user is not derived from the incoming session.
DerivedUserDropped(session) == Null

\* session?.user ?? null
DerivedUser(session) == IF HasUser(session) THEN session.user ELSE Null

\* The onAuthStateChange callback, lines 210-216.  The SDK calls it with
\* session: Session | null, a Session carrying its user.
OnAuthStateChange(eventKind, session) ==
    /\ subscribed
    /\ eventCount < MaxEvents
    /\ IF SessionChanged(currentSession, session)
       THEN /\ currentSession' = session
            /\ currentUser' = DerivedUser(session)
            /\ torn' = TornWrite(Pair(currentSession, currentUser),
                                 Pair(session, DerivedUser(session)))
            /\ lastWrote' = TRUE
       ELSE /\ UNCHANGED <<currentSession, currentUser>>
            /\ torn' = FALSE
            /\ lastWrote' = FALSE
    /\ eventCount' = eventCount + 1
    /\ lastEvent' = session
    /\ UNCHANGED <<calls, clientOptions, clientFetch, side,
                   useSsrCookies, pc, userRes, sessionRes,
                   subscribed, log, setupRejected, nowAtInit, initWrites,
                   subscriptions>>

\* ------------------------------------------------- server initialization
\* Lines 14-59: build the client, provide it and, with useSsrCookies, start
\* serverSupabaseSession(event) and serverSupabaseUser(event) together.
ServerStart ==
    /\ side = "server"
    /\ pc = "start"
    /\ IF useSsrCookies
       THEN /\ sessionRes' = Pending
            /\ userRes' = Pending
            /\ pc' = "awaitAll"
       ELSE /\ pc' = "done"
            /\ UNCHANGED <<sessionRes, userRes>>
    /\ clientFetch' = FetchOf(clientOptions)
    /\ UNCHANGED <<calls, clientOptions, side,
                   useSsrCookies, currentSession, currentUser,
                   subscribed, log, setupRejected, nowAtInit, eventCount,
                   lastEvent, lastWrote, initWrites, torn, subscriptions>>

\* serverSupabaseSession(event) settles; its .catch reports a rejection.
ServerSessionSettles(outcome) ==
    /\ side = "server"
    /\ pc = "awaitAll"
    /\ sessionRes = Pending
    /\ sessionRes' = outcome
    /\ log' = IF outcome.st = "raised"
              THEN log \cup {"error:server session"} ELSE log
    /\ UNCHANGED <<calls, clientOptions, clientFetch, side,
                   useSsrCookies, pc, userRes, currentSession,
                   currentUser, subscribed, setupRejected, nowAtInit,
                   eventCount, lastEvent, lastWrote, initWrites, torn,
                   subscriptions>>

\* serverSupabaseUser(event) settles; its .catch reports a rejection.
ServerUserSettles(outcome) ==
    /\ side = "server"
    /\ pc = "awaitAll"
    /\ userRes = Pending
    /\ userRes' = outcome
    /\ log' = IF outcome.st = "raised"
              THEN log \cup {"error:server user"} ELSE log
    /\ UNCHANGED <<calls, clientOptions, clientFetch, side,
                   useSsrCookies, pc, sessionRes, currentSession,
                   currentUser, subscribed, setupRejected, nowAtInit,
                   eventCount, lastEvent, lastWrote, initWrites, torn,
                   subscriptions>>

\* .catch((error) => { ...; return null }): the element Promise.all yields.
CatchNull(r) == IF r.st = "ok" THEN r.val ELSE Null

\* Promise.all resolved: lines 61-62 publish both values as they came.
ServerPublish ==
    /\ side = "server"
    /\ pc = "awaitAll"
    /\ Settled(sessionRes)
    /\ Settled(userRes)
    /\ currentSession' = CatchNull(sessionRes)
    /\ currentUser' = CatchNull(userRes)
    /\ initWrites' = InitWrite
    /\ torn' = TornWrite(Pair(currentSession, currentUser),
                         Pair(CatchNull(sessionRes), CatchNull(userRes)))
    /\ pc' = "done"
    /\ UNCHANGED <<calls, clientOptions, clientFetch, side,
                   useSsrCookies, userRes, sessionRes, subscribed,
                   log, setupRejected, nowAtInit, eventCount, lastEvent,
                   lastWrote, subscriptions>>

Next ==
    \/ ClientStart
    \/ \E o \in GetUserOutcomes : ClientUserSettles(o)
    \/ \E o \in GetSessionOutcomes, now \in Times : ClientSessionSettles(o, now)
    \/ \E k \in EventKinds, s \in TypedSessions \cup {Null} :
          OnAuthStateChange(k, s)
    \/ ServerStart
    \/ \E o \in ServerSessionOutcomes : ServerSessionSettles(o)
    \/ \E o \in ServerUserOutcomes : ServerUserSettles(o)
    \/ ServerPublish

Spec == Init /\ [][Next]_vars

\* -------------------------------------------- retrying transport, steps
\* Exponential backoff: the base delay doubled for every attempt made.
RECURSIVE Backoff(_)
Backoff(attempt) ==
    IF attempt <= 1 THEN BaseDelay ELSE 2 * Backoff(attempt - 1)

\* Variant: the attempt cap tested before the outcome, so the last
\* permitted attempt counts as exhaustion whatever it returned.
AfterAttemptCapFirst(call, outcome) ==
    IF call.attempts >= MaxAttempts \/ outcome \in TerminalOutcomes
    THEN [call EXCEPT !.status = "failed", !.last = outcome,
                      !.retryable = IF outcome \in RetryableOutcomes
                                    THEN @ + 1 ELSE @]
    ELSE IF outcome = "2xx"
    THEN [call EXCEPT !.status = "succeeded", !.last = outcome]
    ELSE [call EXCEPT !.status = "backoff", !.last = outcome,
                      !.retryable = @ + 1,
                      !.delay = Backoff(call.attempts)]

\* Variant: the attempt cap compared with <= instead of <.
AfterAttemptOffByOne(call, outcome) ==
    IF outcome = "2xx"
    THEN [call EXCEPT !.status = "succeeded", !.last = outcome]
    ELSE IF outcome \in TerminalOutcomes
    THEN [call EXCEPT !.status = "failed", !.last = outcome]
    ELSE IF call.attempts <= MaxAttempts
    THEN [call EXCEPT !.status = "backoff", !.last = outcome,
                      !.retryable = @ + 1,
                      !.delay = Backoff(call.attempts)]
    ELSE [call EXCEPT !.status = "failed", !.last = outcome,
                      !.retryable = @ + 1]

\* What one settled attempt makes of the call: a 2xx is returned, a
\* terminal failure propagates at once, a retryable failure schedules the
\* next attempt unless the attempt count is used up.
AfterAttempt(call, outcome) ==
    IF outcome = "2xx"
    THEN [call EXCEPT !.status = "succeeded", !.last = outcome]
    ELSE IF outcome \in TerminalOutcomes
    THEN [call EXCEPT !.status = "failed", !.last = outcome]
    ELSE IF call.attempts < MaxAttempts
    THEN [call EXCEPT !.status = "backoff", !.last = outcome,
                      !.retryable = @ + 1,
                      !.delay = Backoff(call.attempts)]
    ELSE [call EXCEPT !.status = "failed", !.last = outcome,
                      !.retryable = @ + 1]

\* The provider SDK issues a request through the transport: attempt 1.
TransportCall(c) ==
    /\ calls[c].status = "idle"
    /\ calls' = [calls EXCEPT ![c] =
                    [IdleCall EXCEPT !.status = "inflight", !.attempts = 1]]
    /\ UNCHANGED reconcilerVars

\* The attempt in flight settles.
AttemptSettles(c, outcome) ==
    /\ calls[c].status = "inflight"
    /\ calls' = [calls EXCEPT ![c] = AfterAttempt(calls[c], outcome)]
    /\ UNCHANGED reconcilerVars

\* The backoff sleep is over: the next attempt goes out.
BackoffElapses(c) ==
    /\ calls[c].status = "backoff"
    /\ calls' = [calls EXCEPT ![c].status = "inflight",
                              ![c].attempts = @ + 1]
    /\ UNCHANGED reconcilerVars

\* The caller's timeout or cancellation fires: the attempt is abandoned
\* and no next one is scheduled.
CancelCall(c) ==
    /\ calls[c].status \in {"inflight", "backoff"}
    /\ calls' = [calls EXCEPT ![c].status = "cancelled"]
    /\ UNCHANGED reconcilerVars

TransportInit ==
    /\ Init
    /\ side = "client"
    /\ useSsrCookies = TRUE
    /\ clientOptions = [auth |-> "flow"]

TransportNext ==
    \/ \E c \in CallIds : TransportCall(c)
    \/ \E c \in CallIds, o \in AttemptOutcomes : AttemptSettles(c, o)
    \/ \E c \in CallIds : BackoffElapses(c)
    \/ \E c \in CallIds : CancelCall(c)

TransportSpec == TransportInit /\ [][TransportNext]_vars

\* ================================================================ claims
\* Setup ran its initialization path to the end and no event came since.
InitDone == pc = "done" /\ eventCount = 0
ClientInitDone == side = "client" /\ InitDone
\* The initialization path ran at all (the server skips it without
\* useSsrCookies).
InitRan == side = "client" \/ useSsrCookies

\* C1: null safety - in every reachable state of the Credential Pair,
\* currentUser = null implies currentSession = null.
C1_NullSafety == currentUser = Null => currentSession = Null

\* C2: divergence preference - getUser() returned user A and getSession()
\* a session embedding a user B with another id: initialization reported a
\* warning-level divergence event and published A as the user.
C2_Diverged ==
    /\ ClientInitDone
    /\ Authenticated(userRes)
    /\ sessionRes.st = "ok"
    /\ HasUser(sessionRes.val)
    /\ sessionRes.val.user.id # userRes.val.id
C2_DivergencePreference ==
    C2_Diverged =>
        /\ "warn:user id mismatch" \in log
        /\ currentUser = userRes.val
C2_Witness ==
    /\ C2_Diverged
    /\ "warn:user id mismatch" \in log
    /\ currentUser = userRes.val
    /\ currentSession = StripUser(sessionRes.val)

\* C3: fallback construction - getUser() succeeded with a user and
\* getSession() failed (an error, no session, or a raised exception): the
\* published pair is that user with the placeholder session (empty tokens,
\* token type bearer, expiry = current time + 3600).
C3_SessionFailed ==
    \/ sessionRes.st \in {"error", "raised"}
    \/ sessionRes.st = "ok" /\ sessionRes.val = Null
C3_FallbackConstruction ==
    (ClientInitDone /\ Authenticated(userRes) /\ C3_SessionFailed) =>
        /\ currentUser = userRes.val
        /\ currentSession = Placeholder(nowAtInit)

\* C4: getUser() failed or returned no user: whatever getSession()
\* returned, initialization published { session: null, user: null } and
\* did not fail the surrounding execution context.
C4_NoUserMeansEmptyPair ==
    (InitDone /\ InitRan /\ ~Authenticated(userRes)) =>
        /\ currentSession = Null
        /\ currentUser = Null
        /\ ~setupRejected

\* C5: idempotent event application - an auth event carrying the same
\* session as the event before it leaves the pair as it was and writes
\* neither cell.
C5_IdempotentEvents ==
    [][(eventCount' = eventCount + 1 /\ eventCount >= 1
            /\ lastEvent' = lastEvent)
        => (/\ currentSession' = currentSession
            /\ currentUser' = currentUser
            /\ ~lastWrote')]_vars
C5_Witness ==
    /\ eventCount >= 2
    /\ ~lastWrote
    /\ lastEvent # Null
    /\ currentSession = lastEvent
    /\ currentUser = lastEvent.user

\* C6: sign-out - the pair holds a non-null session and user and an auth
\* event with session = null arrives: the pair becomes
\* { session: null, user: null }.
C6_SignOut ==
    [][(eventCount' = eventCount + 1 /\ lastEvent' = Null
            /\ currentSession # Null /\ currentUser # Null)
        => (currentSession' = Null /\ currentUser' = Null)]_vars
\* The placeholder session published by initialization is signed out by
\* the first event.
C6_Witness ==
    /\ eventCount = 1
    /\ lastEvent = Null
    /\ lastWrote
    /\ Authenticated(userRes)
    /\ sessionRes.st = "error"
    /\ currentSession = Null
    /\ currentUser = Null

\* C7: events are applied in arrival order without reordering or
\* coalescing - after any non-empty sequence of auth events the pair is
\* (s, s.user or null) for the session s of the last event delivered.
C7_LastEventWins ==
    eventCount >= 1 =>
        /\ currentSession = lastEvent
        /\ currentUser = IF lastEvent = Null THEN Null ELSE lastEvent.user
C7_Witness ==
    /\ eventCount = MaxEvents
    /\ lastWrote
    /\ lastEvent # Null
    /\ currentSession = lastEvent
    /\ currentUser = lastEvent.user
    /\ Authenticated(userRes)
    /\ currentUser # userRes.val

\* C8: unexpected failure during client initialization - a step of the
\* initialization path raised: the published pair is exactly
\* { session: null, user: null }, the failure was reported, and setup did
\* not propagate the exception to its host.
C8_StepRaised ==
    \/ userRes.st = "raised"
    \/ sessionRes.st = "raised"
    \/ /\ Authenticated(userRes)
       /\ sessionRes.st = "ok"
       /\ sessionRes.val \in UserlessSessions
C8_FailureResetsPair ==
    (ClientInitDone /\ C8_StepRaised) =>
        /\ currentSession = Null
        /\ currentUser = Null
        /\ "error:authentication initialization" \in log
        /\ ~setupRejected
\* The TypeError case: user was already assigned when the step raised.
C8_Witness ==
    /\ ClientInitDone
    /\ Authenticated(userRes)
    /\ sessionRes.st = "ok"
    /\ sessionRes.val \in UserlessSessions
    /\ currentSession = Null
    /\ currentUser = Null
    /\ "error:authentication initialization" \in log

\* C9: independent join - both provider calls are issued during
\* initialization and both are waited for; a failure of either (a raised
\* exception included) neither keeps the other from being issued nor
\* discards the other's result.
C9_IndependentJoin ==
    (InitDone /\ InitRan) =>
        /\ Settled(userRes)
        /\ Settled(sessionRes)
        /\ (Authenticated(userRes) /\ sessionRes.st = "raised"
                /\ side = "client")
            => currentUser = userRes.val

\* C10: retry bound - a transport call whose every attempt fails with a
\* retryable error is attempted exactly MaxAttempts times and then fails
\* terminally; a terminal error ends the call at once, so a call that
\* meets one first is attempted exactly once.
C10_RetryBound ==
    \A c \in CallIds :
        LET call == calls[c]
        IN  /\ call.attempts <= MaxAttempts
            /\ (call.status = "failed" /\ call.last \in RetryableOutcomes)
                => (call.attempts = MaxAttempts
                    /\ call.retryable = MaxAttempts)
            /\ call.retryable = MaxAttempts => call.status = "failed"
            /\ call.last \in TerminalOutcomes
                => (call.status = "failed"
                    /\ call.attempts = call.retryable + 1)
            /\ (call.last \in TerminalOutcomes /\ call.retryable = 0)
                => call.attempts = 1
C10_Witness ==
    \E c, d \in CallIds :
        /\ calls[c].status = "failed"
        /\ calls[c].retryable = MaxAttempts
        /\ calls[c].attempts = MaxAttempts
        /\ calls[d].status = "failed"
        /\ calls[d].last = "4xx"
        /\ calls[d].attempts = 1


\* C11: recovery within the cap - a transport call that receives k
\* consecutive retryable failures and then a success, k < MaxAttempts,
\* returns that response after exactly k + 1 attempts.
C11_RecoveryWithinCap ==
    \A c \in CallIds :
        LET call == calls[c]
        IN  /\ call.last = "2xx" => call.status = "succeeded"
            /\ call.status = "succeeded"
                => /\ call.last = "2xx"
                   /\ call.retryable < MaxAttempts
                   /\ call.attempts = call.retryable + 1
\* Three retryable failures, then the 2xx on the last permitted attempt.
C11_Witness ==
    \E c \in CallIds :
        /\ calls[c].status = "succeeded"
        /\ calls[c].last = "2xx"
        /\ calls[c].retryable = MaxAttempts - 1
        /\ calls[c].attempts = MaxAttempts


\* C12: initialization publishes its result exactly once - as claimed, in
\* every run of setup the initialization path writes currentSession and
\* currentUser exactly one time each.
C12_PublishedOnceInEveryRun ==
    pc = "done" => initWrites = [session |-> 1, user |-> 1]
\* C12 as amended: in every run of setup that runs the initialization path
\* (the client plugin always, the server plugin with useSsrCookies) each
\* cell is written exactly once on every control path, and never twice;
\* the server plugin without useSsrCookies writes neither cell.
C12_PublishedOnceWhenInitRuns ==
    /\ initWrites.session <= 1
    /\ initWrites.user <= 1
    /\ (pc = "done" /\ InitRan) => initWrites = [session |-> 1, user |-> 1]
    /\ ~InitRan => initWrites = [session |-> 0, user |-> 0]
\* The exception path of the client: getUser() raised, the pair was still
\* written once.
C12_Witness ==
    /\ side = "client"
    /\ pc = "done"
    /\ userRes.st = "raised"
    /\ initWrites = [session |-> 1, user |-> 1]


\* C13: paired writes are atomic to readers - no reader of the shared
\* state observes the session updated while the user still holds its
\* previous value (or the reverse), at the initial publish or while an
\* auth event is applied.
C13_AtomicPairedWrites == ~torn


\* C14: every provider call is routed through the retrying transport -
\* for every value of clientOptions, one that supplies its own global
\* options included, the fetch function of the constructed server, browser
\* and plain clients is fetchWithRetry.
C14_FetchIsTransport == pc # "start" => clientFetch = "fetchWithRetry"


\* C15: abandoning reconciliation mid-flight leaves the pair untouched -
\* while setup still waits at a suspension point of initialization (a
\* provider call pending or still to be issued) neither cell has been
\* written, so the pair is at its prior value and never a partial one.
C15_MidFlight == pc # "done"
C15_NoWriteMidFlight ==
    C15_MidFlight =>
        /\ initWrites = [session |-> 0, user |-> 0]
        /\ currentSession = Null
        /\ currentUser = Null
\* Suspended with one result already in hand: the client holds the user
\* while getSession() is pending, or the server holds a session while
\* serverSupabaseUser() is pending.
C15_Witness ==
    /\ C15_MidFlight
    /\ currentSession = Null
    /\ currentUser = Null
    /\ \/ /\ side = "client"
          /\ Authenticated(userRes)
          /\ sessionRes.st = "pending"
       \/ /\ side = "server"
          /\ sessionRes.st = "ok"
          /\ sessionRes.val # Null
          /\ userRes.st = "pending"


\* C16: session and user are never duplicated after initialization -
\* whenever getUser() and getSession() both succeed, the session published
\* by initialization is the getSession() payload with its embedded user
\* field removed and every other field unchanged.
C16_BothSucceeded ==
    /\ InitDone
    /\ InitRan
    /\ Authenticated(userRes)
    /\ sessionRes.st = "ok"
    /\ sessionRes.val # Null
C16_PublishedSessionIsStripped ==
    C16_BothSucceeded =>
        /\ currentSession = StripUser(sessionRes.val)
        /\ ~HasUser(currentSession)


\* C17: the client-side plugin subscribes to the auth-event stream exactly
\* once per setup, on every control path of initialization (the path where
\* initialization raised included), and the server-side plugin never
\* subscribes.
C17_SubscribesOnce ==
    /\ subscriptions <= 1
    /\ subscribed <=> subscriptions = 1
    /\ side = "server" => subscriptions = 0
    /\ (side = "client" /\ pc = "done") => subscriptions = 1
\* The path where initialization raised.
C17_Witness ==
    /\ side = "client"
    /\ pc = "done"
    /\ sessionRes.st = "raised"
    /\ "error:authentication initialization" \in log
    /\ subscriptions = 1


\* C18: the getUser()-derived identity stays authoritative across the
\* first notification - after an initialization in which getUser() returned
\* A and getSession() returned session S (whether or not S embeds A), a
\* first auth event carrying that same session S leaves the pair's user
\* equal to A.
C18_FirstEventRepeatsSession ==
    /\ side = "client"
    /\ eventCount = 1
    /\ Authenticated(userRes)
    /\ sessionRes.st = "ok"
    /\ sessionRes.val # Null
    /\ lastEvent = sessionRes.val
\* "Equal to A" is taken as the same identity (the same id).
C18_UserStaysAuthoritative ==
    C18_FirstEventRepeatsSession =>
        /\ currentUser # Null
        /\ currentUser.id = userRes.val.id


\* C19: no auth event is applied before the initial publish - the callback
\* is registered only after initialization has written currentSession and
\* currentUser, so the first write to the pair is the initialization
\* result and every event-driven write comes after it.
C19_EventsAfterInitialPublish ==
    /\ subscribed => initWrites = [session |-> 1, user |-> 1]
    /\ eventCount >= 1 =>
            /\ pc = "done"
            /\ initWrites = [session |-> 1, user |-> 1]
C19_Witness ==
    /\ eventCount = 1
    /\ lastWrote
    /\ pc = "done"
    /\ initWrites = [session |-> 1, user |-> 1]
    /\ Authenticated(userRes)

====
